---- MODULE Spec2Model ----
(***************************************************************************)
(* A model of ThreadPool<FunctionType, Args...> (src/ThreadPool.h) and of  *)
(* Task<FunctionType, Args...> (src/Task.h).                               *)
(*                                                                         *)
(* Worker threads run doWork(); client threads call execute(), submit(),   *)
(* wait() and shutdown().  Every step of the model is one statement (or    *)
(* one critical-section body) of the source; the label of a program        *)
(* counter is the source line the thread is about to run.  Reads of        *)
(* isShutdown_, activeThreads_ and tasks_.empty() that the source does     *)
(* without a lock are separate steps, so every interleaving of them with   *)
(* the writers is explored: such a read yields the value before or after   *)
(* a concurrent write, whichever the interleaving gives.                   *)
(***************************************************************************)
EXTENDS Integers, Sequences, FiniteSets, TLC

\* ------------------------------------------------------------------ bounds
MaxTasks == 2          \* calls of execute()/submit() that are accepted
NumClients == 2        \* client threads using the pool

\* ------------------------------------------------------- program constants
REAL_MAX_THREADS == 100                 \* ThreadPool.h:35

\* threads_.size() is a size_t: an int compared with it is converted modulo
\* 2^N first.  N is 64 in the build; the model checker's integers are 32 bits
\* wide, so the modulus is scaled to 2^30, still far above every thread
\* count, which is all the comparisons of lines 188 and 190 depend on.
SizeTModulus == 2 ^ 30

\* the constructor's arguments: -1 is the default of maxThreads
InitialThreadsArgs == {0, 1}
MaxThreadsArgs == {-1, 0, 1}

\* a thread is spawned per accepted call at most
MaxWorkers == 1 + MaxTasks
Workers == 1..MaxWorkers
Clients == 1..NumClients
TaskIds == 1..MaxTasks

\* Client 1 is the thread that owns the pool: it alone calls wait() and
\* shutdown(); every client calls execute()/submit().
Owner == 1

VARIABLES
    \* ---- ThreadPool fields
    nThreads,        \* threads_.size(); threads_[i-1] is worker i
    tasks,           \* tasks_: the queue of task envelopes (task ids)
    queueLock,       \* queueLock_: 0 when free, else its holder
    pullLock,        \* pullLock_: 0 when free, else its holder
    maxThreads,      \* maxThreads_
    activeThreads,   \* activeThreads_
    isShutdown,      \* isShutdown_
    isForced,        \* isForced_
    \* ---- worker threads (doWork)
    wpc,             \* wpc[w]: the line worker w is at ("none": never created)
    alreadyExecuted, \* doWork's local alreadyExecuted
    wtask,           \* doWork's local task (0: default-constructed)
    detached,        \* detached[w]: threads_[w-1].detach() was called
    \* ---- client threads
    cpc,             \* cpc[c]: the line client c is at ("idle": in no call)
    ctask,           \* the task client c pushed in its current call
    issued,          \* notifyNewTask, before its unlock: what it has issued
    destroying,      \* ~ThreadPool() has been entered
    force,           \* the force argument of the owner's shutdown call
    idx,             \* the loop index i of shutdown's detach loop
    \* ---- Task / future state
    nextTask,        \* number of Task objects constructed so far
    calls,           \* number of accepted execute()/submit() calls so far
    execCount,       \* execCount[t]: how often Task::execute ran on t
    fulfilCount,     \* fulfilCount[t]: how often t's result channel was written
    result,          \* result[t]: what t's result channel holds
    \* ---- history (observations the claims speak about)
    deqOrder,        \* the tasks in the order workers removed them
    waitSnap,        \* during wait(): the tasks submitted before it was called
    quietWait,       \* during wait(): no submission has overlapped it
    shutQuiet,       \* during shutdown(): all tasks had finished at its call
    shutQueued,      \* the tasks queued when shutdown(false) was called
    shutReturned,    \* a shutdown() call has returned
    rejected         \* a call of execute()/submit() made after that was refused

poolVars == <<nThreads, tasks, queueLock, pullLock, maxThreads, activeThreads,
              isShutdown, isForced>>
workerVars == <<wpc, alreadyExecuted, wtask, detached>>
clientVars == <<cpc, ctask, issued, destroying, force, idx>>
taskVars == <<nextTask, calls, execCount, fulfilCount, result>>
histVars == <<deqOrder, waitSnap, quietWait, shutQuiet, shutQueued,
              shutReturned, rejected>>
vars == <<poolVars, workerVars, clientVars, taskVars, histVars>>

\* ----------------------------------------------------------------- helpers
\* std::min
Min(a, b) == IF a < b THEN a ELSE b

\* the usual arithmetic conversion of an int compared with a size_t
ToSizeT(x) == x % SizeTModulus

\* lock holders: worker w is w, client c is -c
WorkerId(w) == w
ClientId(c) == 0 - c

\* std::queue operations (the first two of each pair are not the code's:
\* a push at the wrong end, a pop that leaves the envelope in the queue)
QueuePushFront(q, t) == <<t>> \o q
QueuePush(q, t) == Append(q, t)
QueueFront(q) == Head(q)
QueuePopKeeps(q) == q
QueuePop(q) == Tail(q)
QueueEmpty(q) == q = <<>>

\* workers blocked in taskAvailable_.wait(ul)
Waiting == {w \in Workers : wpc[w] = "wait"}

\* ------------------------------------------------------------ constructor
\* ThreadPool(initialThreads, maxThreads): the threads start in doWork
Construct(initialThreads, maxThr) ==
    /\ nThreads = Min(initialThreads, REAL_MAX_THREADS)
    /\ maxThreads = Min(maxThr, REAL_MAX_THREADS)
    /\ activeThreads = 0
    /\ isShutdown = FALSE
    /\ isForced = FALSE
    /\ tasks = <<>>
    /\ queueLock = 0
    /\ pullLock = 0
    /\ wpc = [w \in Workers |-> IF w <= Min(initialThreads, REAL_MAX_THREADS)
                                THEN "L205" ELSE "none"]
    /\ alreadyExecuted = [w \in Workers |-> FALSE]
    /\ wtask = [w \in Workers |-> 0]
    /\ detached = [w \in Workers |-> FALSE]

\* no call has been made on the pool and no Task exists
NoCalls ==
    /\ cpc = [c \in Clients |-> "idle"]
    /\ ctask = [c \in Clients |-> 0]
    /\ issued = "none"
    /\ destroying = FALSE
    /\ force = FALSE
    /\ idx = 0
    /\ nextTask = 0
    /\ calls = 0
    /\ execCount = [t \in TaskIds |-> 0]
    /\ fulfilCount = [t \in TaskIds |-> 0]
    /\ result = [t \in TaskIds |-> "none"]
    /\ deqOrder = <<>>
    /\ waitSnap = {}
    /\ quietWait = FALSE
    /\ shutQuiet = FALSE
    /\ shutQueued = {}
    /\ shutReturned = FALSE
    /\ rejected = FALSE

Init ==
    /\ \E initialThreads \in InitialThreadsArgs, maxThr \in MaxThreadsArgs :
          Construct(initialThreads, maxThr)
    /\ NoCalls

\* ------------------------------------------------------------------ doWork
\* line 205: while (!isShutdown_)
WorkerLoopCheck(w) ==
    /\ wpc[w] = "L205"
    /\ wpc' = [wpc EXCEPT ![w] = IF isShutdown THEN "exited" ELSE "L209"]
    /\ UNCHANGED <<poolVars, alreadyExecuted, wtask, detached, clientVars,
                   taskVars, histVars>>

\* lines 212-213: if (alreadyExecuted) --activeThreads_;
DecrementsAlways(w) == TRUE
Decrements(w) == alreadyExecuted[w]

\* lines 209-213: unique_lock ul(pullLock_); if (alreadyExecuted) --activeThreads_
WorkerLock(w) ==
    /\ wpc[w] = "L209"
    /\ pullLock = 0
    /\ pullLock' = WorkerId(w)
    /\ activeThreads' = IF Decrements(w) THEN activeThreads - 1
                        ELSE activeThreads
    /\ wpc' = [wpc EXCEPT ![w] = "L215"]
    /\ UNCHANGED <<nThreads, tasks, queueLock, maxThreads, isShutdown, isForced,
                   alreadyExecuted, wtask, detached, clientVars, taskVars,
                   histVars>>

\* lines 215-218: while (tasks_.empty() && !isShutdown_) taskAvailable_.wait(ul)
WorkerWaitCheck(w) ==
    /\ wpc[w] = "L215"
    /\ IF QueueEmpty(tasks) /\ ~isShutdown
       THEN /\ pullLock' = 0            \* wait() releases the lock
            /\ wpc' = [wpc EXCEPT ![w] = "wait"]
       ELSE /\ pullLock' = pullLock
            /\ wpc' = [wpc EXCEPT ![w] = "L224"]
    /\ UNCHANGED <<nThreads, tasks, queueLock, maxThreads, activeThreads,
                   isShutdown, isForced, alreadyExecuted, wtask, detached,
                   clientVars, taskVars, histVars>>

\* a condition variable may wake spuriously
SpuriousWake(w) ==
    /\ wpc[w] = "wait"
    /\ wpc' = [wpc EXCEPT ![w] = "woken"]
    /\ UNCHANGED <<poolVars, alreadyExecuted, wtask, detached, clientVars,
                   taskVars, histVars>>

\* line 218: a woken wait(ul) re-acquires pullLock_ before it returns
WorkerWake(w) ==
    /\ wpc[w] = "woken"
    /\ pullLock = 0
    /\ pullLock' = WorkerId(w)
    /\ wpc' = [wpc EXCEPT ![w] = "L215"]
    /\ UNCHANGED <<nThreads, tasks, queueLock, maxThreads, activeThreads,
                   isShutdown, isForced, alreadyExecuted, wtask, detached,
                   clientVars, taskVars, histVars>>

\* lines 224-225: if (isShutdown_) break;  (ul is released leaving the scope)
WorkerShutdownCheck(w) ==
    /\ wpc[w] = "L224"
    /\ IF isShutdown
       THEN /\ pullLock' = 0
            /\ wpc' = [wpc EXCEPT ![w] = "exited"]
       ELSE /\ pullLock' = pullLock
            /\ wpc' = [wpc EXCEPT ![w] = "L226"]
    /\ UNCHANGED <<nThreads, tasks, queueLock, maxThreads, activeThreads,
                   isShutdown, isForced, alreadyExecuted, wtask, detached,
                   clientVars, taskVars, histVars>>

\* line 226: queueLock_.lock()
WorkerQueueLock(w) ==
    /\ wpc[w] = "L226"
    /\ queueLock = 0
    /\ queueLock' = WorkerId(w)
    /\ wpc' = [wpc EXCEPT ![w] = "L227"]
    /\ UNCHANGED <<nThreads, tasks, pullLock, maxThreads, activeThreads,
                   isShutdown, isForced, alreadyExecuted, wtask, detached,
                   clientVars, taskVars, histVars>>

\* lines 227-228 without the unlock of line 229 (not the code's)
WorkerDequeueKeepsLock(w) ==
    /\ wpc[w] = "L227"
    /\ ~QueueEmpty(tasks)
    /\ wtask' = [wtask EXCEPT ![w] = QueueFront(tasks)]
    /\ tasks' = QueuePop(tasks)
    /\ deqOrder' = Append(deqOrder, QueueFront(tasks))
    /\ wpc' = [wpc EXCEPT ![w] = "L231"]
    /\ UNCHANGED <<nThreads, queueLock, pullLock, maxThreads, activeThreads,
                   isShutdown, isForced, alreadyExecuted, detached, clientVars,
                   taskVars, waitSnap, quietWait, shutQuiet, shutQueued,
                   shutReturned, rejected>>

\* lines 227-229: task = std::move(tasks_.front()); tasks_.pop(); unlock
\* (front() of an empty queue is not reachable: pushes only add, and pops
\* happen under pullLock_ after the emptiness check)
WorkerDequeue(w) ==
    /\ wpc[w] = "L227"
    /\ ~QueueEmpty(tasks)
    /\ wtask' = [wtask EXCEPT ![w] = QueueFront(tasks)]
    /\ tasks' = QueuePop(tasks)
    /\ deqOrder' = Append(deqOrder, QueueFront(tasks))
    /\ queueLock' = 0
    /\ wpc' = [wpc EXCEPT ![w] = "L231"]
    /\ UNCHANGED <<nThreads, pullLock, maxThreads, activeThreads, isShutdown,
                   isForced, alreadyExecuted, detached, clientVars, taskVars,
                   waitSnap, quietWait, shutQuiet, shutQueued, shutReturned,
                   rejected>>

\* lines 231-232: ++activeThreads_; the scope ends and releases pullLock_
WorkerIncrement(w) ==
    /\ wpc[w] = "L231"
    /\ activeThreads' = activeThreads + 1
    /\ pullLock' = 0
    /\ wpc' = [wpc EXCEPT ![w] = "L234"]
    /\ UNCHANGED <<nThreads, tasks, queueLock, maxThreads, isShutdown, isForced,
                   alreadyExecuted, wtask, detached, clientVars, taskVars,
                   histVars>>

\* the callables the clients pass: every other one throws
Raises(t) == t % 2 = 1

\* what running task t's callable yields
Outcome(t) == IF Raises(t) THEN "failure" ELSE "value"

\* a call that loses what the callable throws (not the code's)
TaskExecuteDropsFailure(t) ==
    /\ execCount' = [execCount EXCEPT ![t] = @ + 1]
    /\ fulfilCount' = [fulfilCount EXCEPT ![t] = IF Raises(t) THEN @ ELSE @ + 1]
    /\ result' = [result EXCEPT ![t] = IF Raises(t) THEN @ ELSE "value"]

\* Task::execute / executeActually (Task.h:64-83): task_(args...) is
\* std::packaged_task::operator(): it runs the callable, stores the value it
\* returns or the exception it throws in the shared state, and returns
TaskExecute(t) ==
    /\ execCount' = [execCount EXCEPT ![t] = @ + 1]
    /\ fulfilCount' = [fulfilCount EXCEPT ![t] = @ + 1]
    /\ result' = [result EXCEPT ![t] = Outcome(t)]

\* lines 234-235: task.execute(); alreadyExecuted = true; the local task is
\* destroyed at the end of the loop body
WorkerExecute(w) ==
    /\ wpc[w] = "L234"
    /\ TaskExecute(wtask[w])
    /\ alreadyExecuted' = [alreadyExecuted EXCEPT ![w] = TRUE]
    /\ wtask' = [wtask EXCEPT ![w] = 0]
    /\ wpc' = [wpc EXCEPT ![w] = "L205"]
    /\ UNCHANGED <<poolVars, detached, clientVars, nextTask, calls, histVars>>

Worker(w) ==
    \/ WorkerLoopCheck(w)
    \/ WorkerLock(w)
    \/ WorkerWaitCheck(w)
    \/ WorkerWake(w)
    \/ WorkerShutdownCheck(w)
    \/ WorkerQueueLock(w)
    \/ WorkerDequeue(w)
    \/ WorkerIncrement(w)
    \/ WorkerExecute(w)

\* ------------------------------------------------------- execute / submit
\* execute() (lines 134-145) and submit() (lines 150-166) run the same steps;
\* submit() also takes the Task's future before the push and returns it.  The
\* future shares the Task's result channel, fulfilCount[t].

\* client c is inside an accepted execute()/submit() call
Submitting(c) == cpc[c] \in {"L139", "L141", "L185", "L188", "L197"}

\* tasks whose execute()/submit() call has returned
Returned == (1..nextTask) \ {ctask[c] : c \in Clients}

\* lines 136-137 / 154-155: if (isShutdown_) return;
\* (submit() returns future<retType>(), a future without a result channel)
RejectsCallNever == FALSE
RejectsCall == isShutdown

\* execute(fn, args...) / submit(fn, args...): the call and its first read
SubmitCall(c) ==
    /\ cpc[c] = "idle"
    /\ ~destroying
    /\ IF RejectsCall
       THEN /\ rejected' = (rejected \/ shutReturned)
            /\ UNCHANGED <<cpc, calls, quietWait, shutQuiet>>
       ELSE /\ calls < MaxTasks
            /\ calls' = calls + 1
            /\ cpc' = [cpc EXCEPT ![c] = "L139"]
            /\ quietWait' = FALSE
            /\ shutQuiet' = FALSE
            /\ UNCHANGED rejected
    /\ UNCHANGED <<poolVars, workerVars, ctask, issued, destroying, force, idx, nextTask,
                   execCount, fulfilCount, result, deqOrder, waitSnap,
                   shutQueued,
                   shutReturned>>

\* lines 139 / 157: queueLock_.lock()
SubmitQueueLock(c) ==
    /\ cpc[c] = "L139"
    /\ queueLock = 0
    /\ queueLock' = ClientId(c)
    /\ cpc' = [cpc EXCEPT ![c] = "L141"]
    /\ UNCHANGED <<nThreads, tasks, pullLock, maxThreads, activeThreads,
                   isShutdown, isForced, workerVars, ctask, issued, destroying, force, idx,
                   taskVars, histVars>>

\* lines 140-142 / 158-161: construct the Task, (take its future,) push it,
\* unlock
SubmitPush(c) ==
    /\ cpc[c] = "L141"
    /\ nextTask' = nextTask + 1
    /\ tasks' = QueuePush(tasks, nextTask + 1)
    /\ ctask' = [ctask EXCEPT ![c] = nextTask + 1]
    /\ queueLock' = 0
    /\ cpc' = [cpc EXCEPT ![c] = "L185"]
    /\ UNCHANGED <<nThreads, pullLock, maxThreads, activeThreads, isShutdown,
                   isForced, workerVars, issued, destroying, force, idx,
                   calls, execCount, fulfilCount, result, histVars>>

\* line 185: pullLock_.lock()
NotifyLock(c) ==
    /\ cpc[c] = "L185"
    /\ pullLock = 0
    /\ pullLock' = ClientId(c)
    /\ cpc' = [cpc EXCEPT ![c] = "L188"]
    /\ UNCHANGED <<nThreads, tasks, queueLock, maxThreads, activeThreads,
                   isShutdown, isForced, workerVars, ctask, issued, destroying, force, idx,
                   taskVars, histVars>>

\* line 188: if (threads_.size() == activeThreads_)
AllBusyNever == FALSE
AllBusy == nThreads = ToSizeT(activeThreads)

\* line 190: if (threads_.size() < maxThreads_)
CanGrow == nThreads < ToSizeT(maxThreads)

\* line 191: threads_.push_back(std::thread(&ThreadPool::doWork, ...))
SpawnThread ==
    /\ nThreads < MaxWorkers
    /\ nThreads' = nThreads + 1
    /\ wpc' = [wpc EXCEPT ![nThreads + 1] = "L205"]

\* line 195: taskAvailable_.notify_one() wakes one waiting thread, if any
\* (NotifyOneLost is not the code's: a notification that wakes no thread)
NotifyOneLost == nThreads' = nThreads /\ wpc' = wpc
NotifyOne ==
    /\ nThreads' = nThreads
    /\ IF Waiting = {}
       THEN wpc' = wpc
       ELSE \E w \in Waiting : wpc' = [wpc EXCEPT ![w] = "woken"]

\* line 121: taskAvailable_.notify_all()  (NotifyNobody is not the code's: a
\* notification that reaches no thread)
NotifyNobody == wpc' = wpc
NotifyAll ==
    wpc' = [w \in Workers |-> IF wpc[w] = "wait" THEN "woken" ELSE wpc[w]]

\* lines 188-196 of notifyNewTask
NotifyNewTask(c) ==
    /\ cpc[c] = "L188"
    /\ IF AllBusy
       THEN IF CanGrow
            THEN SpawnThread /\ issued' = "thread"
            ELSE UNCHANGED <<nThreads, wpc>> /\ issued' = "nothing"
       ELSE NotifyOne /\ issued' = "notify_one"
    /\ cpc' = [cpc EXCEPT ![c] = "L197"]
    /\ UNCHANGED <<tasks, queueLock, pullLock, maxThreads, activeThreads,
                   isShutdown, isForced, alreadyExecuted, wtask, detached,
                   ctask, destroying, force, idx, taskVars, histVars>>

\* line 197: pullLock_.unlock(), then the return of execute()/submit()
NotifyUnlock(c) ==
    /\ cpc[c] = "L197"
    /\ pullLock' = 0
    /\ issued' = "none"
    /\ cpc' = [cpc EXCEPT ![c] = "idle"]
    /\ ctask' = [ctask EXCEPT ![c] = 0]
    /\ UNCHANGED <<nThreads, tasks, queueLock, maxThreads, activeThreads,
                   isShutdown, isForced, workerVars, destroying, force, idx,
                   taskVars, histVars>>

\* -------------------------------------------------------------------- wait
\* wait(): the call
WaitCall ==
    /\ cpc[Owner] = "idle"
    /\ ~destroying
    /\ cpc' = [cpc EXCEPT ![Owner] = "L175a"]
    /\ waitSnap' = Returned
    /\ quietWait' = \A d \in Clients : ~Submitting(d)
    /\ UNCHANGED <<poolVars, workerVars, ctask, issued, destroying, force, idx, taskVars,
                   deqOrder, shutQuiet, shutQueued, shutReturned, rejected>>

\* line 175, first operand: activeThreads_ != 0 (read without a lock);
\* when it holds the thread sleeps WAIT_TIME and evaluates the loop again
WaitReadActive ==
    /\ cpc[Owner] = "L175a"
    /\ cpc' = [cpc EXCEPT ![Owner] = IF activeThreads # 0 THEN "L175a"
                                     ELSE "L175b"]
    /\ UNCHANGED <<poolVars, workerVars, ctask, issued, destroying, force, idx, taskVars,
                   histVars>>

\* line 175, second operand: !tasks_.empty() (read without a lock); when it
\* holds the thread sleeps and evaluates the loop again
WaitReadEmpty ==
    /\ cpc[Owner] = "L175b"
    /\ ~QueueEmpty(tasks)
    /\ cpc' = [cpc EXCEPT ![Owner] = "L175a"]
    /\ UNCHANGED <<poolVars, workerVars, ctask, issued, destroying, force, idx, taskVars,
                   histVars>>

\* line 177: both operands were false, wait() returns
WaitReturn ==
    /\ cpc[Owner] = "L175b"
    /\ QueueEmpty(tasks)
    /\ cpc' = [cpc EXCEPT ![Owner] = "idle"]
    /\ waitSnap' = {}
    /\ quietWait' = FALSE
    /\ UNCHANGED <<poolVars, workerVars, ctask, issued, destroying, force, idx, taskVars,
                   deqOrder, shutQuiet, shutQueued, shutReturned, rejected>>

\* ---------------------------------------------------------------- shutdown
\* every task constructed so far has run to its end and no call is under way
AllFinished ==
    /\ \A d \in Clients : ~Submitting(d)
    /\ \A t \in 1..nextTask : fulfilCount[t] >= 1

\* lines 114-115: if (isShutdown_) return;
ShutdownSkipsNever == FALSE
ShutdownSkips == isShutdown

\* shutdown(force): the call and lines 114-115
ShutdownCall(f) ==
    /\ cpc[Owner] = "idle"
    /\ ~destroying
    /\ IF ShutdownSkips
       THEN /\ shutReturned' = TRUE
            /\ UNCHANGED <<cpc, force, shutQuiet, shutQueued>>
       ELSE /\ cpc' = [cpc EXCEPT ![Owner] = "L117"]
            /\ force' = f
            /\ shutQuiet' = AllFinished
            /\ shutQueued' = IF f THEN {}
                             ELSE {tasks[i] : i \in 1..Len(tasks)}
            /\ UNCHANGED shutReturned
    /\ UNCHANGED <<poolVars, workerVars, ctask, issued, destroying, idx, taskVars, deqOrder,
                   waitSnap, quietWait, rejected>>

\* line 117: isForced_ = force
ShutdownSetForced ==
    /\ cpc[Owner] = "L117"
    /\ isForced' = force
    /\ cpc' = [cpc EXCEPT ![Owner] = "L118"]
    /\ UNCHANGED <<nThreads, tasks, queueLock, pullLock, maxThreads,
                   activeThreads, isShutdown, workerVars, ctask, issued, destroying, force, idx,
                   taskVars, histVars>>

\* line 118: isShutdown_ = true
ShutdownSetFlag ==
    /\ cpc[Owner] = "L118"
    /\ isShutdown' = TRUE
    /\ cpc' = [cpc EXCEPT ![Owner] = "L120"]
    /\ UNCHANGED <<nThreads, tasks, queueLock, pullLock, maxThreads,
                   activeThreads, isForced, workerVars, ctask, issued, destroying, force, idx,
                   taskVars, histVars>>

\* line 120: pullLock_.lock()
ShutdownLock ==
    /\ cpc[Owner] = "L120"
    /\ pullLock = 0
    /\ pullLock' = ClientId(Owner)
    /\ cpc' = [cpc EXCEPT ![Owner] = "L121"]
    /\ UNCHANGED <<nThreads, tasks, queueLock, maxThreads, activeThreads,
                   isShutdown, isForced, workerVars, ctask, issued, destroying, force, idx,
                   taskVars, histVars>>

\* lines 121-122: taskAvailable_.notify_all(); pullLock_.unlock()
ShutdownNotifyAll ==
    /\ cpc[Owner] = "L121"
    /\ NotifyAll
    /\ pullLock' = 0
    /\ cpc' = [cpc EXCEPT ![Owner] = "L124"]
    /\ UNCHANGED <<nThreads, tasks, queueLock, maxThreads, activeThreads,
                   isShutdown, isForced, alreadyExecuted, wtask, detached,
                   ctask, issued, destroying, force, idx, taskVars, histVars>>

\* the return of an effective shutdown() call, to its caller or to line 88
\* of the destructor
ShutdownReturns ==
    /\ cpc' = [cpc EXCEPT ![Owner] = IF destroying THEN "L88" ELSE "idle"]
    /\ shutReturned' = TRUE
    /\ shutQuiet' = FALSE

\* line 124: if (force), entering the loop of line 125 with i = 0; else return
ShutdownForceCheck ==
    /\ cpc[Owner] = "L124"
    /\ IF force
       THEN /\ cpc' = [cpc EXCEPT ![Owner] = "L125"]
            /\ idx' = 0
            /\ UNCHANGED <<shutReturned, shutQuiet>>
       ELSE /\ ShutdownReturns
            /\ UNCHANGED idx
    /\ UNCHANGED <<poolVars, workerVars, ctask, issued, destroying, force, taskVars, deqOrder,
                   waitSnap, quietWait, shutQueued, rejected>>

\* lines 125-126: for (i = 0; i != threads_.size(); ++i) threads_[i].detach()
ShutdownDetach ==
    /\ cpc[Owner] = "L125"
    /\ IF idx # nThreads
       THEN /\ detached' = [detached EXCEPT ![idx + 1] = TRUE]
            /\ idx' = idx + 1
            /\ UNCHANGED <<cpc, shutReturned, shutQuiet>>
       ELSE /\ ShutdownReturns
            /\ UNCHANGED <<detached, idx>>
    /\ UNCHANGED <<poolVars, wpc, alreadyExecuted, wtask, ctask, issued, destroying, force,
                   taskVars, deqOrder, waitSnap, quietWait, shutQueued,
                   rejected>>

\* -------------------------------------------------------------- destructor
\* ~ThreadPool() runs in the owner when no other thread is inside a call of
\* the pool; no call is made on the pool afterwards.
\* lines 85-86: if (!isShutdown_) shutdown(false);
DestructCall ==
    /\ \A c \in Clients : cpc[c] = "idle"
    /\ ~destroying
    /\ destroying' = TRUE
    /\ IF isShutdown
       THEN /\ cpc' = [cpc EXCEPT ![Owner] = "L88"]
            /\ UNCHANGED <<force, shutQuiet, shutQueued>>
       ELSE /\ cpc' = [cpc EXCEPT ![Owner] = "L117"]
            /\ force' = FALSE
            /\ shutQuiet' = AllFinished
            /\ shutQueued' = {tasks[i] : i \in 1..Len(tasks)}
    /\ UNCHANGED <<poolVars, workerVars, ctask, issued, idx, taskVars, deqOrder,
                   waitSnap, quietWait, shutReturned, rejected>>

\* line 88: if (!isForced_)
JoinsAlways == TRUE
Joins == ~isForced

\* line 88, entering the loop of line 89 with i = 0, or skipping it
DestructForcedCheck ==
    /\ cpc[Owner] = "L88"
    /\ IF Joins
       THEN /\ cpc' = [cpc EXCEPT ![Owner] = "L89"]
            /\ idx' = 0
       ELSE /\ cpc' = [cpc EXCEPT ![Owner] = "L91"]
            /\ UNCHANGED idx
    /\ UNCHANGED <<poolVars, workerVars, ctask, issued, destroying, force,
                   taskVars, histVars>>

\* lines 89-90: for (i = 0; i != threads_.size(); ++i) threads_[i].join();
\* join() returns when the thread has left doWork
DestructJoin ==
    /\ cpc[Owner] = "L89"
    /\ IF idx # nThreads
       THEN /\ wpc[idx + 1] = "exited"
            /\ idx' = idx + 1
            /\ UNCHANGED cpc
       ELSE /\ cpc' = [cpc EXCEPT ![Owner] = "L91"]
            /\ UNCHANGED idx
    /\ UNCHANGED <<poolVars, workerVars, ctask, issued, destroying, force,
                   taskVars, histVars>>

\* threads_[w-1] is joinable: it was neither detached nor joined
Joinable(w) ==
    /\ w <= nThreads
    /\ ~detached[w]
    /\ ~(cpc[Owner] \in {"L89", "L91"} /\ ~isForced /\ w <= idx)

\* line 91: the members are destroyed; ~thread() of a joinable thread calls
\* std::terminate
DestructMembers ==
    /\ cpc[Owner] = "L91"
    /\ cpc' = [cpc EXCEPT ![Owner] =
                  IF \E w \in Workers : Joinable(w) THEN "terminate"
                  ELSE "destroyed"]
    /\ UNCHANGED <<poolVars, workerVars, ctask, issued, destroying, force, idx,
                   taskVars, histVars>>

\* -------------------------------------------------------------- observers
\* lines 93-106
ActiveThreadsObs == activeThreads
GetPoolSize == nThreads
GetMaximumPoolSize == maxThreads
IsShutdownObs == isShutdown
IsTerminated == isShutdown /\ activeThreads = 0

\* ------------------------------------------------------------------- Next
Client(c) ==
    \/ SubmitCall(c)
    \/ SubmitQueueLock(c)
    \/ SubmitPush(c)
    \/ NotifyLock(c)
    \/ NotifyNewTask(c)
    \/ NotifyUnlock(c)

OwnerStep ==
    \/ WaitCall
    \/ WaitReadActive
    \/ WaitReadEmpty
    \/ WaitReturn
    \/ \E f \in BOOLEAN : ShutdownCall(f)
    \/ ShutdownSetForced
    \/ ShutdownSetFlag
    \/ ShutdownLock
    \/ ShutdownNotifyAll
    \/ ShutdownForceCheck
    \/ ShutdownDetach
    \/ DestructCall
    \/ DestructForcedCheck
    \/ DestructJoin
    \/ DestructMembers

Next ==
    \/ \E w \in Workers : Worker(w)
    \/ \E w \in Workers : SpuriousWake(w)
    \/ \E c \in Clients : Client(c)
    \/ OwnerStep

Spec == Init /\ [][Next]_vars

\* ---------------------------------------------------------------- fairness
\* the steps of client c inside an accepted execute()/submit() call
InCall(c) ==
    \/ SubmitQueueLock(c)
    \/ SubmitPush(c)
    \/ NotifyLock(c)
    \/ NotifyNewTask(c)
    \/ NotifyUnlock(c)

\* Scheduling: a thread that is inside doWork or inside a call and stays able
\* to take its next step eventually takes it.  Nothing obliges a client to
\* start a call, nor a condition variable to wake spuriously.
ThreadsProgress ==
    /\ \A w \in Workers : WF_vars(Worker(w))
    /\ \A c \in Clients : WF_vars(InCall(c))

\* the pool used through execute()/submit() alone: no wait(), no shutdown()
\* and no destruction
SubmitNext ==
    \/ \E w \in Workers : Worker(w)
    \/ \E w \in Workers : SpuriousWake(w)
    \/ \E c \in Clients : Client(c)

SubmitSpec == Init /\ [][SubmitNext]_vars /\ ThreadsProgress

\* the steps of the owner inside a shutdown() call
InShutdownCall ==
    \/ ShutdownSetForced
    \/ ShutdownSetFlag
    \/ ShutdownLock
    \/ ShutdownNotifyAll
    \/ ShutdownForceCheck
    \/ ShutdownDetach

\* pullLock_ is eventually granted to a caller that keeps asking for it,
\* however often workers take it on spurious wakeups
LocksGranted ==
    /\ \A c \in Clients : SF_vars(NotifyLock(c))
    /\ SF_vars(ShutdownLock)

\* the pool used through execute()/submit() and shutdown() of either kind
CallsNext ==
    \/ \E w \in Workers : Worker(w)
    \/ \E w \in Workers : SpuriousWake(w)
    \/ \E c \in Clients : Client(c)
    \/ \E f \in BOOLEAN : ShutdownCall(f)
    \/ InShutdownCall

CallsSpec ==
    /\ Init /\ [][CallsNext]_vars
    /\ ThreadsProgress /\ WF_vars(InShutdownCall) /\ LocksGranted

\* -------------------------------------------------- the size of the pool
\* threads_.size() and activeThreads_ alone, for pools of any size: the
\* constructor, workers that take and finish tasks, and the body of
\* notifyNewTask.  The other variables keep their initial values.

\* constructor arguments around REAL_MAX_THREADS
LargeInitialThreadsArgs == {0, 1, REAL_MAX_THREADS - 1, REAL_MAX_THREADS,
                            REAL_MAX_THREADS + 1}
LargeMaxThreadsArgs == {-1, 0, REAL_MAX_THREADS - 1, REAL_MAX_THREADS,
                        REAL_MAX_THREADS + 1}

SizeInit ==
    /\ \E initialThreads \in LargeInitialThreadsArgs,
          maxThr \in LargeMaxThreadsArgs :
          Construct(initialThreads, maxThr)
    /\ NoCalls

\* line 231: a worker that removed a task counts itself active
SizeTake ==
    /\ activeThreads < nThreads
    /\ activeThreads' = activeThreads + 1
    /\ UNCHANGED <<nThreads, tasks, queueLock, pullLock, maxThreads,
                   isShutdown, isForced, workerVars, clientVars, taskVars,
                   histVars>>

\* lines 212-213: a worker that executed its task uncounts itself
SizeFinish ==
    /\ activeThreads > 0
    /\ activeThreads' = activeThreads - 1
    /\ UNCHANGED <<nThreads, tasks, queueLock, pullLock, maxThreads,
                   isShutdown, isForced, workerVars, clientVars, taskVars,
                   histVars>>

\* lines 188-191: an accepted call adds a thread when every thread is counted
\* active and line 190 allows it (followed up to MaxTasks threads beyond
\* REAL_MAX_THREADS)
SizeNotify ==
    /\ nThreads < REAL_MAX_THREADS + MaxTasks
    /\ nThreads' = IF AllBusy /\ CanGrow THEN nThreads + 1 ELSE nThreads
    /\ UNCHANGED <<tasks, queueLock, pullLock, maxThreads, activeThreads,
                   isShutdown, isForced, workerVars, clientVars, taskVars,
                   histVars>>

SizeNext ==
    \/ SizeTake
    \/ SizeFinish
    \/ SizeNotify

SizeSpec == SizeInit /\ [][SizeNext]_vars

\* the steps of the owner inside shutdown(false) and inside the destructor
InShutdown ==
    \/ ShutdownSetForced
    \/ ShutdownSetFlag
    \/ ShutdownLock
    \/ ShutdownNotifyAll
    \/ ShutdownForceCheck
    \/ DestructForcedCheck
    \/ DestructJoin
    \/ DestructMembers

\* the pool used through execute()/submit(), shut down with shutdown(false)
\* and destroyed
ShutdownNext ==
    \/ \E w \in Workers : Worker(w)
    \/ \E w \in Workers : SpuriousWake(w)
    \/ \E c \in Clients : Client(c)
    \/ ShutdownCall(FALSE)
    \/ DestructCall
    \/ InShutdown

ShutdownSpec ==
    Init /\ [][ShutdownNext]_vars /\ ThreadsProgress /\ WF_vars(InShutdown)

\* ================================================================== claims
\* every thread of threads_ has left doWork: no task can be executed any more
AllWorkersExited == \A w \in 1..nThreads : wpc[w] = "exited"

\* the run is over: the pool had workers, all of them have left doWork, and
\* no client is inside a call (so no thread can be started any more)
RunOver ==
    /\ nThreads >= 1
    /\ AllWorkersExited
    /\ \A c \in Clients : cpc[c] = "idle"

\* shutdown(true) has been called
ForcedCalled == isForced \/ (force /\ cpc[Owner] = "L117")

\* shutdown(false) has been called and has returned
ShutdownDone == isShutdown /\ ~isForced /\ shutReturned

\* the step in which the owner's wait() returns
WaitReturnStep == cpc[Owner] = "L175b" /\ cpc'[Owner] = "idle"

\* the step in which the owner's shutdown() returns after doing its work
ShutdownReturnStep == cpc[Owner] \in {"L124", "L125"} /\ cpc'[Owner] = "idle"

\* the number of times task t was removed from the queue
Removals(t) == Cardinality({i \in 1..Len(deqOrder) : deqOrder[i] = t})

\* C1: on a pool that has a worker and is never shut down forcefully, every
\* accepted task is eventually executed.  Stated on the runs' last states:
\* once every worker has left doWork and no call is under way, every task
\* that was pushed has been executed.
C1_AcceptedTasksExecuted ==
    (RunOver /\ ~ForcedCalled)
    => \A t \in 1..nextTask : execCount[t] >= 1

\* C2: every task is removed from the queue by at most one worker, is
\* executed at most once, and its result channel is written at most once,
\* exactly once when its execution has finished.
C2_AtMostOnce ==
    \A t \in TaskIds :
        /\ Removals(t) <= 1
        /\ Cardinality({w \in Workers : wtask[w] = t}) <= 1
        /\ (Removals(t) = 1 => \A i \in 1..Len(tasks) : tasks[i] # t)
        /\ execCount[t] <= 1
        /\ fulfilCount[t] <= 1
        /\ (execCount[t] >= 1 => fulfilCount[t] = 1)

\* C2's case: every task was pushed, removed and executed, and two workers
\* took part
C2_Witness ==
    /\ Len(deqOrder) = MaxTasks
    /\ \A t \in TaskIds : execCount[t] = 1 /\ fulfilCount[t] = 1
    /\ Cardinality({w \in Workers : alreadyExecuted[w]}) >= 2

\* C3: when wait() returns and no shutdown was requested, no task whose
\* execute()/submit() call had returned before wait() was called is still
\* queued or still being executed: its result channel is written.
C3_WaitedTasksDone ==
    [][(WaitReturnStep /\ ~isShutdown)
       => \A t \in waitSnap :
             /\ fulfilCount[t] >= 1
             /\ \A i \in 1..Len(tasks) : tasks[i] # t
             /\ \A w \in Workers : wtask[w] # t]_vars

\* C4: when no submission runs concurrently with wait(), activeThreads() is
\* 0 and the queue is empty at the moment wait() returns.
C4_IdleAfterWait ==
    [][(WaitReturnStep /\ quietWait)
       => (ActiveThreadsObs' = 0 /\ QueueEmpty(tasks'))]_vars

\* C5: after shutdown(false), every task that was in the queue when it was
\* called is still executed.  Stated on the runs' last states: once every
\* worker has left doWork those tasks have been executed.
C5_QueuedTasksExecuted ==
    (RunOver /\ ShutdownDone)
    => \A t \in shutQueued : execCount[t] >= 1

\* C6: if shutdown() is called when every task submitted so far has finished
\* executing, isShutdown() and isTerminated() are true as soon as it returns.
C6_TerminatedAfterShutdown ==
    [][(ShutdownReturnStep /\ shutQuiet)
       => (IsShutdownObs' /\ IsTerminated')]_vars

\* C7: once a non-forced shutdown has been requested and every worker has
\* finished its task and exited, activeThreads() is 0 and isTerminated() true.
C7_TerminatedWhenExited ==
    (RunOver /\ ShutdownDone)
    => (ActiveThreadsObs = 0 /\ IsTerminated)

\* C8: getPoolSize() <= getMaximumPoolSize() in every state, for every pair
\* of constructor arguments.
C8_BoundedGrowth == GetPoolSize <= GetMaximumPoolSize

\* C9: tasks leave the queue in the order their pushes completed (task ids
\* are given in push order): the k-th removal takes the k-th pushed task.
C9_FifoDequeue ==
    /\ \A i \in 1..Len(deqOrder) : deqOrder[i] = i
    /\ \A i, j \in 1..Len(tasks) : i < j => tasks[i] < tasks[j]

\* C9's case: two tasks were queued together and both have been removed
C9_Witness ==
    /\ Len(deqOrder) >= 2
    /\ deqOrder[1] = 1
    /\ deqOrder[2] = 2

\* C10: a call of execute()/submit() that starts after shutdown() has
\* returned changes nothing: the queue, the thread set, activeCount and the
\* locks are as before, no worker is woken or started, no Task (and so no
\* result channel that could ever be written) is created, and the call
\* is over.
C10_RejectedCallNoOp ==
    [][\A c \in Clients :
          (shutReturned /\ SubmitCall(c))
          => /\ UNCHANGED <<tasks, nThreads, activeThreads, wpc, queueLock,
                            pullLock, nextTask, calls, execCount,
                            fulfilCount>>
             /\ cpc'[c] = "idle"]_vars

\* C10's case: such a call was made
C10_Witness == shutReturned /\ rejected /\ nextTask >= 1

\* C11: shutdown() is idempotent.  A call of shutdown(force) made after a
\* shutdown call has returned changes nothing, whatever its argument: the
\* flags, the thread set, the queue, the locks and every worker are as before
\* and the call is over; in particular shutdown(true) after shutdown(false)
\* neither sets isForced_ nor detaches a thread.
C11_ShutdownIdempotent ==
    [][\A f \in BOOLEAN :
          (shutReturned /\ ShutdownCall(f))
          => /\ UNCHANGED <<poolVars, workerVars, taskVars>>
             /\ cpc'[Owner] = "idle"]_vars

\* C11's case: shutdown(false) has returned, a worker is still running a task
\* and another task is queued, and the owner calls shutdown(true): the call
\* can be made in this state and, changing nothing, leaves this very state
C11_Witness ==
    /\ ShutdownDone
    /\ ENABLED ShutdownCall(TRUE)
    /\ \E w \in 1..nThreads : wpc[w] = "L234" /\ ~detached[w]
    /\ ~QueueEmpty(tasks)

\* C12: a task whose callable throws has the failure stored in its own result
\* channel and every other executed task has its own value; the worker that
\* ran the throwing task is back at the top of its loop afterwards; and, with
\* no shutdown, every task pushed after a throwing one is eventually executed
\* and its result channel holds its own outcome.
C12_FailureIsolated ==
    /\ [](\A t \in TaskIds :
            execCount[t] >= 1
            => result[t] = IF Raises(t) THEN "failure" ELSE "value")
    /\ \A w \in Workers :
          (wpc[w] = "L234" /\ Raises(wtask[w])) ~> (wpc[w] = "L209")
    /\ \A t \in {x \in TaskIds : Raises(x)} :
          \A u \in {x \in TaskIds : t < x} :
             (execCount[t] >= 1 /\ u <= nextTask)
             ~> (fulfilCount[u] = 1 /\ result[u] = Outcome(u))

\* C12's case: the only worker of a pool that cannot grow ran a throwing
\* task and then a task that returned
C12_Witness ==
    /\ nThreads = 1
    /\ maxThreads = 1
    /\ Raises(1)
    /\ result[1] = "failure"
    /\ ~Raises(2)
    /\ result[2] = "value"

\* C13: once shutdown(true) has taken effect, destroying the pool never joins
\* a worker: the destructor never enters the loop of lines 89-90, and each
\* of its steps can be taken whatever the workers are doing.
C13_ForcedNeverJoins ==
    isForced
    => /\ cpc[Owner] # "L89"
       /\ (cpc[Owner] \in {"L88", "L91"} => ENABLED OwnerStep)

\* C13's case: the destructor has run to its end after shutdown(true) while a
\* worker is still executing a task and another task is still queued
C13_Witness ==
    /\ isForced
    /\ cpc[Owner] = "destroyed"
    /\ \E w \in 1..nThreads : wpc[w] = "L234"
    /\ ~QueueEmpty(tasks)

\* the lines of doWork between taking pullLock_ and the test of line 224
IdleLines == {"L215", "wait", "woken", "L224"}

\* every thread of the pool has left doWork
AllExited == \A w \in Workers : wpc[w] \in {"none", "exited"}

C15_NoUncountedTask ==
    (QueueEmpty(tasks) /\ ActiveThreadsObs = 0)
    => \A w \in Workers : wtask[w] = 0

\* a submitter has pushed its task and has not yet run the body of
\* notifyNewTask: its notification is still to come
NotifyPending == \E c \in Clients : cpc[c] \in {"L185", "L188"}

\* C16: no wakeup is lost.  While no shutdown has been requested, the queue
\* is never non-empty with every worker of a non-empty pool blocked in
\* taskAvailable_.wait() unless a submitter's notification is still to come;
\* and once shutdown() has returned no worker is blocked in wait().
C16_NoLostWakeup ==
    /\ (~isShutdown /\ ~QueueEmpty(tasks) /\ nThreads >= 1 /\ ~NotifyPending)
       => \E w \in 1..nThreads : wpc[w] # "wait"
    /\ shutReturned => \A w \in Workers : wpc[w] # "wait"

\* C16's case: both workers of a pool were blocked in wait(), a task was
\* pushed and its submitter's notify_one has woken one of them
C16_Witness ==
    /\ ~isShutdown
    /\ ~QueueEmpty(tasks)
    /\ nThreads = 2
    /\ \E c \in Clients : cpc[c] = "L197" /\ issued = "notify_one"
    /\ \E w \in 1..2 : wpc[w] = "woken" /\ wpc[3 - w] = "wait"

\* C17: 0 <= activeThreads() <= getPoolSize() in every reachable state.
C17_ActiveWithinPool ==
    /\ 0 <= ActiveThreadsObs
    /\ ActiveThreadsObs <= GetPoolSize

\* C17's case: the pool has grown, every thread of it counts itself active,
\* and a shutdown has been requested meanwhile
C17_Witness ==
    /\ GetPoolSize >= 2
    /\ ActiveThreadsObs = GetPoolSize
    /\ isShutdown
    /\ \E w \in Workers : alreadyExecuted[w]

\* the task client c pushed is in the queue or has been removed from it
Visible(c) ==
    \/ \E i \in 1..Len(tasks) : tasks[i] = ctask[c]
    \/ \E i \in 1..Len(deqOrder) : deqOrder[i] = ctask[c]

C19_AtMostRealMaxThreads == GetPoolSize <= REAL_MAX_THREADS

\* the owner is inside a shutdown() call
ShuttingDown == cpc[Owner] \in {"L117", "L118", "L120", "L121", "L124", "L125"}

\* who holds a mutex is inside the critical section the code takes it for:
\* queueLock_ is held for a push (line 141) or, nested in pullLock_, for a
\* removal (line 227); pullLock_ is held by a worker between lines 215 and
\* 231, by a submitter in notifyNewTask or by shutdown at line 121
LockOrder ==
    /\ queueLock # 0
       => \/ \E c \in Clients : queueLock = ClientId(c) /\ cpc[c] = "L141"
          \/ \E w \in Workers :
                /\ queueLock = WorkerId(w)
                /\ wpc[w] = "L227"
                /\ pullLock = WorkerId(w)
    /\ pullLock # 0
       => \/ \E w \in Workers :
                /\ pullLock = WorkerId(w)
                /\ wpc[w] \in {"L215", "L224", "L226", "L227", "L231"}
          \/ \E c \in Clients :
                /\ pullLock = ClientId(c)
                /\ \/ cpc[c] \in {"L188", "L197"}
                   \/ c = Owner /\ cpc[c] = "L121"

\* C20: the pool is deadlock-free.  No thread that holds queueLock_ ever
\* waits for pullLock_ (the holder of a mutex is inside its critical
\* section, and only a worker nests one in the other, queueLock_ inside
\* pullLock_), and every call of execute(), submit() and shutdown()
\* eventually returns.
C20_DeadlockFree ==
    /\ []LockOrder
    /\ \A c \in Clients : Submitting(c) ~> (cpc[c] = "idle")
    /\ ShuttingDown ~> (cpc[Owner] = "idle")

\* C20's case: a submitter waits for queueLock_ while a worker holds it
\* nested in pullLock_, a second submitter waits for pullLock_, and the
\* owner's shutdown() waits for pullLock_ too
C20_Witness ==
    /\ \E w \in Workers : queueLock = WorkerId(w) /\ pullLock = WorkerId(w)
    /\ cpc[Owner] = "L120"
    /\ \E c \in Clients : cpc[c] = "L139"

\* C21: once isShutdown_ is set no task is pushed onto the queue and no
\* thread is added to threads_, also when an execute()/submit() call runs
\* concurrently with shutdown(); so after shutdown(true) has returned every
\* thread of threads_ has been detached.
C21_ClosedAfterShutdown ==
    /\ [][isShutdown => (Len(tasks') <= Len(tasks) /\ nThreads' <= nThreads)]_vars
    /\ [](isForced /\ shutReturned => \A w \in 1..nThreads : detached[w])
====
